---------------------------- MODULE Spec2Model ----------------------------
(***************************************************************************)
(* Model of libcloud/common/openstack.py: the OpenStack authentication     *)
(* negotiator (OpenStackAuthConnection), the service catalog index         *)
(* (OpenStackServiceCatalog) and the endpoint resolving connection         *)
(* (OpenStackBaseConnection).                                              *)
(*                                                                         *)
(* Python values are modelled as follows.  Strings are TLA+ strings, and   *)
(* Python's None is the sentinel None below (no string of the model equals *)
(* it).  Auth version strings are sequences of characters, because the     *)
(* catalog tests them with the substring operator `in`.  JSON values are   *)
(* tagged records (JNull, JStr, JObj, JList).  A Python call that may      *)
(* raise returns a record whose exc field names the exception class, or    *)
(* NoExc.                                                                  *)
(***************************************************************************)
EXTENDS Integers, Sequences, FiniteSets, TLC

None == "<None>"
NoExc == "none"

\* Python truthiness of a string-or-None value: `not x`.
Falsy(x) == x = None \/ x = ""

\* Python's `a or b` on string-or-None values.
PyOr(a, b) == IF Falsy(a) THEN b ELSE a

(***************************************************************************)
(* Auth version strings, character by character.                           *)
(***************************************************************************)
V_1_0 == <<"1", ".", "0">>
V_1_1 == <<"1", ".", "1">>
V_2_0 == <<"2", ".", "0">>
V_2_0_apikey == <<"2", ".", "0", "_", "a", "p", "i", "k", "e", "y">>
V_2_0_password == <<"2", ".", "0", "_", "p", "a", "s", "s", "w", "o", "r", "d">>
V_2_0_foo == <<"2", ".", "0", "_", "f", "o", "o">>
V_v1_0 == <<"v", "1", ".", "0">>
V_1_10 == <<"1", ".", "1", "0">>
V_3_0 == <<"3", ".", "0">>
\* None and '' are both falsy: the two places that read a configured version
\* (lines 221 and 296) replace either by AUTH_API_VERSION.
V_unset == <<>>

AUTH_API_VERSION == V_1_1

RecognizedVersions == {V_1_0, V_1_1, V_2_0, V_2_0_apikey, V_2_0_password}
AuthVersions == RecognizedVersions \cup {V_2_0_foo, V_v1_0, V_1_10, V_3_0, V_unset}

\* Python's `sub in s` on strings.
StrIn(sub, s) ==
    \E i \in 0..(Len(s) - Len(sub)) : SubSeq(s, i + 1, i + Len(sub)) = sub

(***************************************************************************)
(* JSON values.                                                            *)
(***************************************************************************)
JNull == [k |-> "null"]
JStr(s) == [k |-> "str", s |-> s]
JObj(f) == [k |-> "obj", o |-> f]
JList(l) == [k |-> "list", l |-> l]
EmptyDict == [x \in {} |-> JNull]

\* The Python value of a JSON scalar (a string or null) as string-or-None.
PyVal(v) == IF v.k = "str" THEN v.s ELSE None

\* Python's v[key] for a string key: KeyError on a dict without the key,
\* TypeError on a list, a string or None.
GetItem(v, key) ==
    IF v.k = "obj"
    THEN IF key \in DOMAIN v.o
         THEN [exc |-> NoExc, val |-> v.o[key]]
         ELSE [exc |-> "KeyError", val |-> JNull]
    ELSE [exc |-> "TypeError", val |-> JNull]

\* v[keys[1]][keys[2]]..., stopping at the first exception.
RECURSIVE GetPath(_, _)
GetPath(v, keys) ==
    IF keys = <<>>
    THEN [exc |-> NoExc, val |-> v]
    ELSE LET r == GetItem(v, Head(keys))
         IN  IF r.exc # NoExc THEN r ELSE GetPath(r.val, Tail(keys))

\* Python's d.get(key, default) on a dict d (a TLA+ function).
DictGet(d, key, default) == IF key \in DOMAIN d THEN d[key] ELSE default

(***************************************************************************)
(* HTTP responses of the auth endpoint: [status, headers, body].  headers  *)
(* is a dict from header names to strings, body is the response text.      *)
(***************************************************************************)
OK == 200
NON_AUTHORITATIVE_INFORMATION == 203
NO_CONTENT == 204
UNAUTHORIZED == 401
Statuses == {OK, NON_AUTHORITATIVE_INFORMATION, NO_CONTENT, UNAUTHORIZED, 500}

CT_JSON == "application/json"
CT_JSON_CHARSET == "application/json; charset=UTF-8"
CT_TEXT == "text/plain"

\* The response bodies of the model, as the texts the endpoint sends.
B_EMPTY == ""
B_GARBAGE == "<html>Service Unavailable</html>"
B_EMPTY_OBJ == "{}"
B_LIST == "[]"
B11_OK == "{\"auth\":{\"token\":{\"id\":\"tok123\"},\"serviceCatalog\":{\"cloudServers\":[{\"region\":null,\"publicURL\":\"https://x/compute\"}]}}}"
B11_OK2 == "{\"auth\":{\"token\":{\"id\":\"tok789\"},\"serviceCatalog\":{\"cloudServers\":[{\"publicURL\":\"http://y:8774/compute\"}]}}}"
B11_EMPTY_TOKEN == "{\"auth\":{\"token\":{\"id\":\"\"},\"serviceCatalog\":{\"cloudServers\":[{\"region\":null,\"publicURL\":\"https://x/compute\"}]}}}"
B11_NULL_TOKEN == "{\"auth\":{\"token\":{\"id\":null},\"serviceCatalog\":{}}}"
B11_NO_ID == "{\"auth\":{\"token\":{},\"serviceCatalog\":{}}}"
B11_NO_CATALOG == "{\"auth\":{\"token\":{\"id\":\"tok123\"}}}"
B11_AUTH_NULL == "{\"auth\":null}"
B11_CATALOG_NULL == "{\"auth\":{\"token\":{\"id\":\"tok123\"},\"serviceCatalog\":null}}"
B11_AMBIGUOUS == "{\"auth\":{\"token\":{\"id\":\"tok123\"},\"serviceCatalog\":{\"cloudServers\":[{\"publicURL\":\"https://x/compute\"},{\"publicURL\":\"https://x/compute\"}]}}}"
B20_OK == "{\"access\":{\"token\":{\"id\":\"tok456\"},\"serviceCatalog\":[{\"type\":\"compute\",\"name\":\"nova\",\"endpoints\":[{\"region\":\"DFW\",\"publicURL\":\"https://dfw/v2\"},{\"region\":\"ORD\",\"publicURL\":\"https://ord/v2\"}]}]}}"
B20_OK2 == "{\"access\":{\"token\":{\"id\":\"tok789\"},\"serviceCatalog\":[{\"type\":\"compute\",\"name\":\"nova\",\"endpoints\":[{\"region\":\"DFW\",\"publicURL\":\"http://y:8774/compute\"}]}]}}"
B20_EMPTY_TOKEN == "{\"access\":{\"token\":{\"id\":\"\"},\"serviceCatalog\":[{\"type\":\"compute\",\"name\":\"nova\",\"endpoints\":[{\"region\":\"DFW\",\"publicURL\":\"https://dfw/v2\"}]}]}}"
B20_NO_ID == "{\"access\":{\"token\":{},\"serviceCatalog\":[]}}"
B20_NO_CATALOG == "{\"access\":{\"token\":{\"id\":\"tok456\"}}}"
B20_TOKEN_STR == "{\"access\":{\"token\":\"tok456\",\"serviceCatalog\":[]}}"
B20_CATALOG_NULL == "{\"access\":{\"token\":{\"id\":\"tok456\"},\"serviceCatalog\":null}}"
B20_NO_TYPE == "{\"access\":{\"token\":{\"id\":\"tok456\"},\"serviceCatalog\":[{\"name\":\"nova\",\"endpoints\":[]}]}}"
B20_EMPTY_CATALOG == "{\"access\":{\"token\":{\"id\":\"tok456\"},\"serviceCatalog\":[]}}"

UnparsableBodies == {B_EMPTY, B_GARBAGE}
JsonBodies ==
    {B_EMPTY_OBJ, B_LIST, B11_OK, B11_OK2, B11_EMPTY_TOKEN, B11_NULL_TOKEN,
     B11_NO_ID, B11_NO_CATALOG, B11_AUTH_NULL, B11_CATALOG_NULL, B11_AMBIGUOUS,
     B20_OK, B20_OK2, B20_EMPTY_TOKEN, B20_NO_ID, B20_NO_CATALOG,
     B20_TOKEN_STR, B20_CATALOG_NULL, B20_NO_TYPE, B20_EMPTY_CATALOG}
Bodies == UnparsableBodies \cup JsonBodies

\* An endpoint record {"region": region, "publicURL": url}; region Absent
\* leaves the key out, region None is JSON null.
Absent == "<absent>"
Endpoint(region, url) ==
    IF region = Absent
    THEN JObj([x \in {"publicURL"} |-> JStr(url)])
    ELSE JObj([x \in {"region", "publicURL"} |->
                 IF x = "publicURL" THEN JStr(url)
                 ELSE IF region = None THEN JNull ELSE JStr(region)])

\* A 2.0 service descriptor {"type": type, "name": name, "endpoints": eps}.
Service(type, name, eps) ==
    IF name = Absent
    THEN JObj([x \in {"type", "endpoints"} |->
                 IF x = "type" THEN JStr(type) ELSE JList(eps)])
    ELSE JObj([x \in {"type", "name", "endpoints"} |->
                 IF x = "type" THEN JStr(type)
                 ELSE IF x = "name" THEN (IF name = None THEN JNull ELSE JStr(name))
                 ELSE JList(eps)])

\* {"auth": {"token": token, "serviceCatalog": catalog}} and its 2.0 twin.
Envelope(outer, token, catalog) ==
    JObj([x \in {outer} |->
            JObj([y \in {"token", "serviceCatalog"} |->
                    IF y = "token" THEN token ELSE catalog])])
TokenObj(id) == JObj([x \in {"id"} |-> id])
V1Catalog(eps) == JObj([x \in {"cloudServers"} |-> JList(eps)])

\* json.loads on the bodies of the model: the parsed value, or ValueError.
JsonLoads(body) ==
    LET ok(v) == [exc |-> NoExc, val |-> v]
    IN  CASE body = B_EMPTY_OBJ -> ok(JObj(EmptyDict))
          [] body = B_LIST -> ok(JList(<<>>))
          [] body = B11_OK ->
               ok(Envelope("auth", TokenObj(JStr("tok123")),
                           V1Catalog(<<Endpoint(None, "https://x/compute")>>)))
          [] body = B11_OK2 ->
               ok(Envelope("auth", TokenObj(JStr("tok789")),
                           V1Catalog(<<Endpoint(Absent, "http://y:8774/compute")>>)))
          [] body = B11_EMPTY_TOKEN ->
               ok(Envelope("auth", TokenObj(JStr("")),
                           V1Catalog(<<Endpoint(None, "https://x/compute")>>)))
          [] body = B11_NULL_TOKEN ->
               ok(Envelope("auth", TokenObj(JNull), JObj(EmptyDict)))
          [] body = B11_NO_ID ->
               ok(Envelope("auth", JObj(EmptyDict), JObj(EmptyDict)))
          [] body = B11_NO_CATALOG ->
               ok(JObj([x \in {"auth"} |->
                          JObj([y \in {"token"} |-> TokenObj(JStr("tok123"))])]))
          [] body = B11_AUTH_NULL -> ok(JObj([x \in {"auth"} |-> JNull]))
          [] body = B11_CATALOG_NULL ->
               ok(Envelope("auth", TokenObj(JStr("tok123")), JNull))
          [] body = B11_AMBIGUOUS ->
               ok(Envelope("auth", TokenObj(JStr("tok123")),
                           V1Catalog(<<Endpoint(Absent, "https://x/compute"),
                                       Endpoint(Absent, "https://x/compute")>>)))
          [] body = B20_OK ->
               ok(Envelope("access", TokenObj(JStr("tok456")),
                           JList(<<Service("compute", "nova",
                                     <<Endpoint("DFW", "https://dfw/v2"),
                                       Endpoint("ORD", "https://ord/v2")>>)>>)))
          [] body = B20_OK2 ->
               ok(Envelope("access", TokenObj(JStr("tok789")),
                           JList(<<Service("compute", "nova",
                                     <<Endpoint("DFW", "http://y:8774/compute")>>)>>)))
          [] body = B20_EMPTY_TOKEN ->
               ok(Envelope("access", TokenObj(JStr("")),
                           JList(<<Service("compute", "nova",
                                     <<Endpoint("DFW", "https://dfw/v2")>>)>>)))
          [] body = B20_NO_ID ->
               ok(Envelope("access", JObj(EmptyDict), JList(<<>>)))
          [] body = B20_NO_CATALOG ->
               ok(JObj([x \in {"access"} |->
                          JObj([y \in {"token"} |-> TokenObj(JStr("tok456"))])]))
          [] body = B20_TOKEN_STR ->
               ok(Envelope("access", JStr("tok456"), JList(<<>>)))
          [] body = B20_CATALOG_NULL ->
               ok(Envelope("access", TokenObj(JStr("tok456")), JNull))
          [] body = B20_NO_TYPE ->
               ok(Envelope("access", TokenObj(JStr("tok456")),
                           JList(<<JObj([x \in {"name", "endpoints"} |->
                                          IF x = "name" THEN JStr("nova")
                                          ELSE JList(<<>>)])>>)))
          [] body = B20_EMPTY_CATALOG ->
               ok(Envelope("access", TokenObj(JStr("tok456")), JList(<<>>)))
          [] OTHER -> [exc |-> "ValueError", val |-> JNull]

(***************************************************************************)
(* The response headers of the model.                                      *)
(***************************************************************************)
NoHeaders == [x \in {} |-> ""]
ContentTypeHeaders ==
    {NoHeaders, "content-type" :> CT_JSON, "Content-Type" :> CT_JSON_CHARSET,
     "content-type" :> CT_TEXT}
TokenHeaders ==
    {NoHeaders, "x-auth-token" :> "", "x-auth-token" :> "tok123"}
UrlHeaders ==
    {NoHeaders,
     "x-server-management-url" :> "https://x/compute",
     ("x-server-management-url" :> "https://x/compute")
        @@ ("x-cdn-management-url" :> "https://cdn/v1")
        @@ ("x-storage-url" :> "https://storage/v1")}
HeaderSets ==
    {c @@ t @@ u : c \in ContentTypeHeaders, t \in TokenHeaders, u \in UrlHeaders}

Responses ==
    {[status |-> s, headers |-> h, body |-> b] :
        s \in Statuses, h \in HeaderSets, b \in Bodies}

\* A content-type value cut at its ';' characters, the separators kept.
SemicolonPieces(content_type) ==
    IF content_type = CT_JSON_CHARSET
    THEN <<"application/json", ";", " charset=UTF-8">>
    ELSE <<content_type>>

\* content_type.find(';') != -1
HasSemicolon(content_type) ==
    \E i \in DOMAIN SemicolonPieces(content_type) :
        SemicolonPieces(content_type)[i] = ";"

\* content_type.split(';')[0]
BeforeSemicolon(content_type) == SemicolonPieces(content_type)[1]

\* OpenStackAuthResponse.parse_body: the parsed data, or the exception.
parse_body(resp) ==
    IF resp.body = ""
    THEN [exc |-> NoExc, data |-> JNull]
    ELSE IF ~ ("content-type" \in DOMAIN resp.headers
               \/ "Content-Type" \in DOMAIN resp.headers)
    THEN [exc |-> "LibcloudError", data |-> JNull]
    ELSE LET key == IF "content-type" \in DOMAIN resp.headers
                    THEN "content-type" ELSE "Content-Type"
             raw == resp.headers[key]
             content_type == IF HasSemicolon(raw) THEN BeforeSemicolon(raw) ELSE raw
         IN  IF content_type = "application/json"
             THEN IF JsonLoads(resp.body).exc # NoExc
                  THEN [exc |-> "MalformedResponseError", data |-> JNull]
                  ELSE [exc |-> NoExc, data |-> JsonLoads(resp.body).val]
             ELSE [exc |-> NoExc, data |-> JStr(resp.body)]

\* OpenStackAuthResponse.success
success(resp) == TRUE

\* The request primitive of the auth connection: one exchange with the auth
\* endpoint, whose answer resp is wrapped in responseCls; the wrapper checks
\* success() and stores parse_body() as it is constructed.
request(resp) ==
    IF ~ success(resp)
    THEN [exc |-> "Exception", resp |-> resp]
    ELSE [exc |-> parse_body(resp).exc, resp |-> resp]

\* What authenticate() leaves behind: the exception it raised (or NoExc),
\* osa.auth_token, osa.urls, and the number of exchanges it issued.
AuthResult(exc, token, urls, n) ==
    [exc |-> exc, auth_token |-> token, urls |-> urls, requests |-> n]
Raised(exc, n) == AuthResult(exc, None, JObj(EmptyDict), n)

\* headers.get(name, None) as a JSON value.
HeaderValue(headers, name) ==
    IF name \in DOMAIN headers THEN JStr(headers[name]) ELSE JNull

authenticate_1_0(resp) ==
    LET r == request(resp)
        headers == resp.headers
        urls == JObj([x \in {"cloudServers", "cloudFilesCDN", "cloudFiles"} |->
                  JList(<<JObj([y \in {"publicURL"} |->
                      HeaderValue(headers,
                          IF x = "cloudServers" THEN "x-server-management-url"
                          ELSE IF x = "cloudFilesCDN" THEN "x-cdn-management-url"
                          ELSE "x-storage-url")])>>)])
        auth_token == DictGet(headers, "x-auth-token", None)
    IN  IF r.exc # NoExc THEN Raised(r.exc, 1)
        ELSE IF resp.status = UNAUTHORIZED THEN Raised("InvalidCredsError", 1)
        ELSE IF resp.status # NO_CONTENT THEN Raised("MalformedResponseError", 1)
        ELSE IF Falsy(auth_token)
             THEN AuthResult("MalformedResponseError", auth_token, urls, 1)
             ELSE AuthResult(NoExc, auth_token, urls, 1)

\* authenticate_1_1 with the json.loads failure left uncaught.
authenticate_1_1_uncaught(resp) ==
    LET r == request(resp)
        body == JsonLoads(resp.body)
        id == GetPath(body.val, <<"auth", "token", "id">>)
        catalog == GetPath(body.val, <<"auth", "serviceCatalog">>)
        escaped(e) == IF e = "KeyError" THEN "MalformedResponseError" ELSE e
    IN  IF r.exc # NoExc THEN Raised(r.exc, 1)
        ELSE IF resp.status = UNAUTHORIZED THEN Raised("InvalidCredsError", 1)
        ELSE IF resp.status # OK THEN Raised("MalformedResponseError", 1)
        ELSE IF body.exc # NoExc THEN Raised(body.exc, 1)
        ELSE IF id.exc # NoExc THEN Raised(escaped(id.exc), 1)
        ELSE IF catalog.exc # NoExc
             THEN AuthResult(escaped(catalog.exc), PyVal(id.val), JObj(EmptyDict), 1)
             ELSE AuthResult(NoExc, PyVal(id.val), catalog.val, 1)

\* authenticate_1_1 repeating the request once when it is answered 401.
authenticate_1_1_retry(resp) ==
    LET r == request(resp)
        body == JsonLoads(resp.body)
        id == GetPath(body.val, <<"auth", "token", "id">>)
        catalog == GetPath(body.val, <<"auth", "serviceCatalog">>)
        escaped(e) == IF e = "KeyError" THEN "MalformedResponseError" ELSE e
    IN  IF r.exc # NoExc THEN Raised(r.exc, 1)
        ELSE IF resp.status = UNAUTHORIZED THEN Raised("InvalidCredsError", 2)
        ELSE IF resp.status # OK THEN Raised("MalformedResponseError", 1)
        ELSE IF body.exc # NoExc THEN Raised("MalformedResponseError", 1)
        ELSE IF id.exc # NoExc THEN Raised(escaped(id.exc), 1)
        ELSE IF catalog.exc # NoExc
             THEN AuthResult(escaped(catalog.exc), PyVal(id.val), JObj(EmptyDict), 1)
             ELSE AuthResult(NoExc, PyVal(id.val), catalog.val, 1)

authenticate_1_1(resp) ==
    LET r == request(resp)
        body == JsonLoads(resp.body)
        id == GetPath(body.val, <<"auth", "token", "id">>)
        catalog == GetPath(body.val, <<"auth", "serviceCatalog">>)
        escaped(e) == IF e = "KeyError" THEN "MalformedResponseError" ELSE e
    IN  IF r.exc # NoExc THEN Raised(r.exc, 1)
        ELSE IF resp.status = UNAUTHORIZED THEN Raised("InvalidCredsError", 1)
        ELSE IF resp.status # OK THEN Raised("MalformedResponseError", 1)
        ELSE IF body.exc # NoExc THEN Raised("MalformedResponseError", 1)
        ELSE IF id.exc # NoExc THEN Raised(escaped(id.exc), 1)
        ELSE IF catalog.exc # NoExc
             THEN AuthResult(escaped(catalog.exc), PyVal(id.val), JObj(EmptyDict), 1)
             ELSE AuthResult(NoExc, PyVal(id.val), catalog.val, 1)

\* authenticate_2_0_with_body accepting the status OK only.
authenticate_2_0_only_ok(resp) ==
    LET r == request(resp)
        body == JsonLoads(resp.body)
        access == GetItem(body.val, "access")
        token == GetItem(access.val, "token")
        id == GetItem(token.val, "id")
        catalog == GetItem(access.val, "serviceCatalog")
        escaped(e) == IF e = "KeyError" THEN "MalformedResponseError" ELSE e
    IN  IF r.exc # NoExc THEN Raised(r.exc, 1)
        ELSE IF resp.status = UNAUTHORIZED THEN Raised("InvalidCredsError", 1)
        ELSE IF resp.status # OK THEN Raised("MalformedResponseError", 1)
        ELSE IF body.exc # NoExc THEN Raised("MalformedResponseError", 1)
        ELSE IF access.exc # NoExc THEN Raised(escaped(access.exc), 1)
        ELSE IF token.exc # NoExc THEN Raised(escaped(token.exc), 1)
        ELSE IF id.exc # NoExc THEN Raised(escaped(id.exc), 1)
        ELSE IF catalog.exc # NoExc
             THEN AuthResult(escaped(catalog.exc), PyVal(id.val), JObj(EmptyDict), 1)
             ELSE AuthResult(NoExc, PyVal(id.val), catalog.val, 1)

authenticate_2_0_with_body(resp) ==
    LET r == request(resp)
        body == JsonLoads(resp.body)
        access == GetItem(body.val, "access")
        token == GetItem(access.val, "token")
        id == GetItem(token.val, "id")
        catalog == GetItem(access.val, "serviceCatalog")
        escaped(e) == IF e = "KeyError" THEN "MalformedResponseError" ELSE e
    IN  IF r.exc # NoExc THEN Raised(r.exc, 1)
        ELSE IF resp.status = UNAUTHORIZED THEN Raised("InvalidCredsError", 1)
        ELSE IF resp.status \notin {OK, NON_AUTHORITATIVE_INFORMATION}
             THEN Raised("MalformedResponseError", 1)
        ELSE IF body.exc # NoExc THEN Raised("MalformedResponseError", 1)
        ELSE IF access.exc # NoExc THEN Raised(escaped(access.exc), 1)
        ELSE IF token.exc # NoExc THEN Raised(escaped(token.exc), 1)
        ELSE IF id.exc # NoExc THEN Raised(escaped(id.exc), 1)
        ELSE IF catalog.exc # NoExc
             THEN AuthResult(escaped(catalog.exc), PyVal(id.val), JObj(EmptyDict), 1)
             ELSE AuthResult(NoExc, PyVal(id.val), catalog.val, 1)

\* The two 2.0 variants differ in the request body only.
authenticate_2_0_with_apikey(resp) == authenticate_2_0_with_body(resp)
authenticate_2_0_with_password(resp) == authenticate_2_0_with_body(resp)

\* OpenStackAuthConnection.authenticate, resp being what the auth endpoint
\* answers to the exchange (if one is issued).
authenticate(auth_version, resp) ==
    IF auth_version = V_1_0 THEN authenticate_1_0(resp)
    ELSE IF auth_version = V_1_1 THEN authenticate_1_1(resp)
    ELSE IF auth_version = V_2_0 \/ auth_version = V_2_0_apikey
         THEN authenticate_2_0_with_apikey(resp)
    ELSE IF auth_version = V_2_0_password
         THEN authenticate_2_0_with_password(resp)
    ELSE Raised("LibcloudError", 0)

(***************************************************************************)
(* OpenStackServiceCatalog.  The index _service_catalog is a dict of dicts *)
(* (TLA+ functions): type -> name -> region -> list for the 2.0 family,    *)
(* service -> region -> list for the 1.x family.                           *)
(***************************************************************************)
EmptyIndex == [x \in {} |-> <<>>]

\* Iterating a JSON value with `for x in v`: the items, or TypeError on None.
\* A dict or a string iterates its keys or characters, which are strings.
IterItems(v) ==
    IF v.k = "list" THEN [exc |-> NoExc, items |-> v.l]
    ELSE IF v.k = "obj"
         THEN [exc |-> NoExc,
               items |-> IF DOMAIN v.o = {} THEN <<>> ELSE <<JStr("key")>>]
    ELSE IF v.k = "str"
         THEN [exc |-> NoExc, items |-> IF v.s = "" THEN <<>> ELSE <<JStr("c")>>]
    ELSE [exc |-> "TypeError", items |-> <<>>]

\* The inner loop assigning [endpoint] to the region instead of appending.
RECURSIVE AppendByRegion_overwrite(_, _)
AppendByRegion_overwrite(regions, endpoints) ==
    IF endpoints = <<>>
    THEN [exc |-> NoExc, val |-> regions]
    ELSE LET endpoint == Head(endpoints)
         IN  IF endpoint.k # "obj"
             THEN [exc |-> "AttributeError", val |-> regions]
             ELSE LET region == PyVal(DictGet(endpoint.o, "region", JNull))
                      created == IF region \notin DOMAIN regions
                                 THEN regions @@ (region :> <<>>)
                                 ELSE regions
                      assigned == [created EXCEPT ![region] = <<endpoint>>]
                  IN  AppendByRegion_overwrite(assigned, Tail(endpoints))

\* The inner loop of both parsers (lines 251-257 and 272-277): each endpoint
\* is appended to the list of its region, created on first use.
RECURSIVE AppendByRegion(_, _)
AppendByRegion(regions, endpoints) ==
    IF endpoints = <<>>
    THEN [exc |-> NoExc, val |-> regions]
    ELSE LET endpoint == Head(endpoints)
         IN  IF endpoint.k # "obj"
             THEN [exc |-> "AttributeError", val |-> regions]
             ELSE LET region == PyVal(DictGet(endpoint.o, "region", JNull))
                      created == IF region \notin DOMAIN regions
                                 THEN regions @@ (region :> <<>>)
                                 ELSE regions
                      appended == [created EXCEPT ![region] = Append(@, endpoint)]
                  IN  AppendByRegion(appended, Tail(endpoints))

\* _parse_auth_v1 over the services still to visit.
RECURSIVE ParseV1Services(_, _, _)
ParseV1Services(index, raw, services) ==
    IF services = {}
    THEN [exc |-> NoExc, val |-> index]
    ELSE LET service == CHOOSE x \in services : TRUE
             endpoints == IterItems(raw[service])
             grouped == AppendByRegion(EmptyIndex, endpoints.items)
         IN  IF endpoints.exc # NoExc
             THEN [exc |-> endpoints.exc, val |-> index]
             ELSE IF grouped.exc # NoExc
             THEN [exc |-> grouped.exc, val |-> index]
             ELSE ParseV1Services((service :> grouped.val) @@ index, raw,
                                  services \ {service})

_parse_auth_v1(service_catalog) ==
    IF service_catalog.k # "obj"
    THEN [exc |-> "AttributeError", val |-> EmptyIndex]
    ELSE ParseV1Services(EmptyIndex, service_catalog.o, DOMAIN service_catalog.o)

\* _parse_auth_v2 over the service descriptors still to visit.
RECURSIVE ParseV2Services(_, _)
ParseV2Services(index, services) ==
    IF services = <<>>
    THEN [exc |-> NoExc, val |-> index]
    ELSE LET service == Head(services)
             type == GetItem(service, "type")
             service_type == PyVal(type.val)
             service_name == PyVal(DictGet(service.o, "name", JNull))
             with_type == IF service_type \notin DOMAIN index
                          THEN index @@ (service_type :> EmptyIndex)
                          ELSE index
             with_name == IF service_name \notin DOMAIN with_type[service_type]
                          THEN [with_type EXCEPT ![service_type] =
                                   @ @@ (service_name :> EmptyIndex)]
                          ELSE with_type
             endpoints == IterItems(DictGet(service.o, "endpoints", JList(<<>>)))
             grouped == AppendByRegion(with_name[service_type][service_name],
                                       endpoints.items)
         IN  IF type.exc # NoExc
             THEN [exc |-> type.exc, val |-> index]
             ELSE IF endpoints.exc # NoExc
             THEN [exc |-> endpoints.exc, val |-> with_name]
             ELSE IF grouped.exc # NoExc
             THEN [exc |-> grouped.exc, val |-> with_name]
             ELSE ParseV2Services(
                      [with_name EXCEPT ![service_type][service_name] = grouped.val],
                      Tail(services))

_parse_auth_v2(service_catalog) ==
    LET services == IterItems(service_catalog)
    IN  IF services.exc # NoExc
        THEN [exc |-> services.exc, val |-> EmptyIndex]
        ELSE ParseV2Services(EmptyIndex, services.items)

\* OpenStackServiceCatalog.__init__: the object built, or the exception.
OpenStackServiceCatalog(service_catalog, ex_force_auth_version) ==
    LET auth_version == IF ex_force_auth_version = V_unset
                        THEN AUTH_API_VERSION ELSE ex_force_auth_version
        parsed == IF StrIn(V_2_0, auth_version)
                  THEN _parse_auth_v2(service_catalog)
                  ELSE IF StrIn(V_1_1, auth_version) \/ StrIn(V_1_0, auth_version)
                  THEN _parse_auth_v1(service_catalog)
                  ELSE [exc |-> "LibcloudError", val |-> EmptyIndex]
    IN  [exc |-> parsed.exc, _auth_version |-> auth_version,
         _service_catalog |-> parsed.val]

\* get_endpoint subscripting the index instead of using get().
get_endpoint_subscript(catalog, service_type, name, region) ==
    LET index == catalog._service_catalog
        two == StrIn(V_2_0, catalog._auth_version)
        missing ==
            IF two
            THEN \/ service_type \notin DOMAIN index
                 \/ name \notin DOMAIN index[service_type]
                 \/ region \notin DOMAIN index[service_type][name]
            ELSE \/ name \notin DOMAIN index
                 \/ region \notin DOMAIN index[name]
        endpoint == IF two THEN index[service_type][name][region]
                    ELSE index[name][region]
    IN  IF missing
        THEN [exc |-> "KeyError", val |-> JObj(EmptyDict)]
        ELSE IF Len(endpoint) = 1
        THEN [exc |-> NoExc, val |-> endpoint[1]]
        ELSE [exc |-> NoExc, val |-> JObj(EmptyDict)]

\* get_endpoint returning the first match of several.
get_endpoint_first(catalog, service_type, name, region) ==
    LET index == catalog._service_catalog
        endpoint ==
            IF StrIn(V_2_0, catalog._auth_version)
            THEN DictGet(DictGet(DictGet(index, service_type, EmptyIndex),
                                 name, EmptyIndex), region, <<>>)
            ELSE DictGet(DictGet(index, name, EmptyIndex), region, <<>>)
    IN  IF Len(endpoint) >= 1
        THEN [exc |-> NoExc, val |-> endpoint[1]]
        ELSE [exc |-> NoExc, val |-> JObj(EmptyDict)]

\* All the lists of a region dict, one after the other.
RECURSIVE AllRegions(_)
AllRegions(regions) ==
    IF DOMAIN regions = {} THEN <<>>
    ELSE LET r == CHOOSE x \in DOMAIN regions : TRUE
         IN  regions[r] \o AllRegions([x \in DOMAIN regions \ {r} |-> regions[x]])

\* get_endpoint taking region=None for "any region".
get_endpoint_wildcard(catalog, service_type, name, region) ==
    LET index == catalog._service_catalog
        regions ==
            IF StrIn(V_2_0, catalog._auth_version)
            THEN DictGet(DictGet(index, service_type, EmptyIndex), name, EmptyIndex)
            ELSE DictGet(index, name, EmptyIndex)
        endpoint == IF region = None THEN AllRegions(regions)
                    ELSE DictGet(regions, region, <<>>)
    IN  IF Len(endpoint) = 1
        THEN [exc |-> NoExc, val |-> endpoint[1]]
        ELSE [exc |-> NoExc, val |-> JObj(EmptyDict)]

\* OpenStackServiceCatalog.get_endpoint: the value returned, or the exception.
get_endpoint(catalog, service_type, name, region) ==
    LET index == catalog._service_catalog
        two == StrIn(V_2_0, catalog._auth_version)
        one == StrIn(V_1_1, catalog._auth_version)
                  \/ StrIn(V_1_0, catalog._auth_version)
        endpoint ==
            IF two
            THEN DictGet(DictGet(DictGet(index, service_type, EmptyIndex),
                                 name, EmptyIndex), region, <<>>)
            ELSE DictGet(DictGet(index, name, EmptyIndex), region, <<>>)
    IN  IF ~ two /\ ~ one
        THEN [exc |-> "UnboundLocalError", val |-> JObj(EmptyDict)]
        ELSE IF Len(endpoint) = 1
        THEN [exc |-> NoExc, val |-> endpoint[1]]
        ELSE [exc |-> NoExc, val |-> JObj(EmptyDict)]

(***************************************************************************)
(* OpenStackBaseConnection.                                                *)
(***************************************************************************)
VARIABLES
    config,           \* what __init__ and the concrete driver class fix
    auth_token,       \* self.auth_token
    service_catalog,  \* self.service_catalog
    target,           \* self.host, self.port, self.secure, self.request_path
    calls,            \* the calls made on the connection, each with its position
    auth_requests,    \* exchanges issued to the auth endpoint so far
    auth_in,          \* AuthNegotiator alone: the version and the response
    auth_out,         \* AuthNegotiator alone: what authenticate() left
    cat_in,           \* ServiceCatalogIndex alone: raw catalog and version
    cat_out,          \* ServiceCatalogIndex alone: the object built
    lookup            \* ServiceCatalogIndex alone: the last get_endpoint call

vars == <<config, auth_token, service_catalog, target, calls, auth_requests,
          auth_in, auth_out, cat_in, cat_out, lookup>>
conn_vars == <<config, auth_token, service_catalog, target, calls, auth_requests>>
auth_vars == <<auth_in, auth_out>>
cat_vars == <<cat_in, cat_out, lookup>>

\* Calls made on one connection.
MaxCalls == 2
CallIds == 1..MaxCalls

\* The URLs of the model, cut as urlparse cuts them.
UrlParts(url) ==
    CASE url = "https://x/compute" ->
           [scheme |-> "https", netloc |-> <<"x">>, path |-> "/compute"]
      [] url = "http://y:8774/compute" ->
           [scheme |-> "http", netloc |-> <<"y", ":", "8774">>, path |-> "/compute"]
      [] url = "https://dfw/v2" ->
           [scheme |-> "https", netloc |-> <<"dfw">>, path |-> "/v2"]
      [] url = "https://ord/v2" ->
           [scheme |-> "https", netloc |-> <<"ord">>, path |-> "/v2"]
      [] url = "https://forced:8443/base" ->
           [scheme |-> "https", netloc |-> <<"forced", ":", "8443">>, path |-> "/base"]
      [] OTHER -> [scheme |-> "", netloc |-> <<>>, path |-> url]

\* Connection._tuple_from_url: (host, port, secure, request_path) of a URL.
_tuple_from_url(url) ==
    LET parts == UrlParts(url)
        with_port == Len(parts.netloc) = 3
        port == IF with_port THEN parts.netloc[3]
                ELSE IF parts.scheme = "http" THEN "80" ELSE "443"
    IN  IF url = None
        THEN [exc |-> "AttributeError", val |-> <<>>]
        ELSE IF parts.scheme \notin {"http", "https"}
        THEN [exc |-> "LibcloudError", val |-> <<>>]
        ELSE [exc |-> NoExc,
              val |-> [host |-> parts.netloc[1], port |-> port,
                       secure |-> parts.scheme = "https",
                       request_path |-> parts.path]]

\* The connection's target before any authentication.
InitialTarget ==
    [host |-> None, port |-> "443", secure |-> TRUE, request_path |-> ""]

NoCatalog == [exc |-> NoExc, _auth_version |-> V_unset, _service_catalog |-> EmptyIndex]

\* The concrete drivers of the model: one that leaves get_endpoint abstract,
\* and two written like the docstring's example, with their hints.
NotImplemented == [implemented |-> FALSE, service_type |-> None, name |-> None, region |-> None]
Nova == [implemented |-> TRUE, service_type |-> "compute", name |-> "nova", region |-> "DFW"]
CloudServers == [implemented |-> TRUE, service_type |-> None, name |-> "cloudServers", region |-> None]
Drivers == {NotImplemented, Nova, CloudServers}

\* get_endpoint left as an empty method in the base class: it returns None.
driver_get_endpoint_pass(driver, catalog) ==
    IF ~ driver.implemented
    THEN [exc |-> NoExc, val |-> None]
    ELSE LET ep == get_endpoint(catalog, driver.service_type, driver.name, driver.region)
             url == GetItem(ep.val, "publicURL")
         IN  IF ep.exc # NoExc THEN [exc |-> ep.exc, val |-> None]
             ELSE IF url.exc # NoExc THEN [exc |-> url.exc, val |-> None]
             ELSE [exc |-> NoExc, val |-> PyVal(url.val)]

\* OpenStackBaseConnection.get_endpoint of a driver (lines 302-315).
driver_get_endpoint(driver, catalog) ==
    IF ~ driver.implemented
    THEN [exc |-> "NotImplementedError", val |-> None]
    ELSE LET ep == get_endpoint(catalog, driver.service_type, driver.name, driver.region)
             url == GetItem(ep.val, "publicURL")
         IN  IF ep.exc # NoExc THEN [exc |-> ep.exc, val |-> None]
             ELSE IF url.exc # NoExc THEN [exc |-> url.exc, val |-> None]
             ELSE [exc |-> NoExc, val |-> PyVal(url.val)]

\* OpenStackBaseConnection.__init__: line 296 replaces a falsy version.
ConnectionConfig(ex_force_auth_version, auth_url, ex_force_auth_url, ex_force_base_url, driver) ==
    [_auth_version |-> IF ex_force_auth_version = V_unset
                       THEN AUTH_API_VERSION ELSE ex_force_auth_version,
     auth_url |-> auth_url,
     _ex_force_auth_url |-> ex_force_auth_url,
     _ex_force_base_url |-> ex_force_base_url,
     accept_format |-> "application/json",
     driver |-> driver]

\* OpenStackBaseConnection.add_default_headers
add_default_headers(headers, token, accept_format) ==
    ("X-Auth-Token" :> token) @@ ("Accept" :> accept_format) @@ headers

\* What the auth endpoint may answer to one exchange of a connection.
ScriptedResponses ==
    {[status |-> NO_CONTENT, body |-> B_EMPTY,
      headers |-> ("x-auth-token" :> "tok123")
                    @@ ("x-server-management-url" :> "https://x/compute")],
     [status |-> NO_CONTENT, body |-> B_EMPTY,
      headers |-> ("x-server-management-url" :> "https://x/compute")],
     [status |-> UNAUTHORIZED, body |-> B_EMPTY, headers |-> NoHeaders],
     [status |-> 500, body |-> B_GARBAGE, headers |-> "content-type" :> CT_TEXT]}
    \cup {[status |-> OK, body |-> b, headers |-> "content-type" :> CT_JSON] :
            b \in {B11_OK, B11_OK2, B11_EMPTY_TOKEN, B11_CATALOG_NULL, B11_AMBIGUOUS,
                   B20_OK, B20_OK2, B20_EMPTY_TOKEN, B20_CATALOG_NULL, B20_NO_TYPE,
                   B20_EMPTY_CATALOG, B_GARBAGE}}

\* A call on the connection: the method called (op), its position (pc),
\* which of the request's two passes through the ensure-authenticated step it
\* is in, osa as authenticate() left it (while the step runs), the exception
\* that reached the caller, the headers it built and the target it was sent to.
NoOsa == Raised(NoExc, 0)
NotSent == [host |-> None, port |-> None, secure |-> FALSE, request_path |-> None]
IdleCall ==
    [op |-> "none", pc |-> "idle", pass |-> 0, osa |-> NoOsa, exc |-> NoExc,
     headers |-> NoHeaders, sent |-> NotSent, exchanges |-> 0]
Ops == {"request", "morph_action_hook", "add_default_headers"}
Quiescent(c) == c.pc \in {"idle", "returned", "raised"}

\* service_catalog is None
IsNone(catalog) == catalog._auth_version = V_unset

\* The versions a connection of the model is configured with: the recognized
\* ones, no version at all, and two that authenticate() does not recognize.
ConfiguredVersions == RecognizedVersions \cup {V_unset, V_2_0_foo, V_3_0}

\* (auth_url of the driver class, ex_force_auth_url)
AuthUrls ==
    {<<None, None>>, <<"https://auth.example.com", None>>,
     <<None, "https://keystone.example.com">>}

\* (ex_force_base_url, driver)
Targets ==
    {<<None, d>> : d \in Drivers}
    \cup {<<"https://forced:8443/base", d>> : d \in {NotImplemented, Nova}}

Configs ==
    {ConnectionConfig(v, a[1], a[2], t[1], t[2]) :
        v \in ConfiguredVersions, a \in AuthUrls, t \in Targets}

IdleAuth == [version |-> V_unset, resp |-> [status |-> OK, headers |-> NoHeaders, body |-> B_EMPTY]]
IdleCat == [raw |-> JNull, version |-> V_unset]
NoLookup == [called |-> FALSE, service_type |-> None, name |-> None,
             region |-> None, exc |-> NoExc, val |-> JObj(EmptyDict)]

NotAuthenticated == [called |-> FALSE, result |-> NoOsa]
NotBuilt == [built |-> FALSE, obj |-> NoCatalog]

ConnInit ==
    /\ config \in Configs
    /\ auth_token = None
    /\ service_catalog = NoCatalog
    /\ target = InitialTarget
    /\ calls = [i \in CallIds |-> IdleCall]
    /\ auth_requests = 0

Init ==
    /\ ConnInit
    /\ auth_in = IdleAuth
    /\ auth_out = NotAuthenticated
    /\ cat_in = IdleCat
    /\ cat_out = NotBuilt
    /\ lookup = NoLookup

\* The exception exc reaches the caller of call i.
Raise(i, exc) ==
    calls' = [calls EXCEPT ![i].pc = "raised", ![i].exc = exc, ![i].osa = NoOsa]

\* Where call i goes once the ensure-authenticated step has returned:
\* morph_action_hook returns; request goes on into the generic request(),
\* which calls morph_action_hook (the step once more) and then sends.
AfterStep(c) ==
    IF c.op = "request"
    THEN IF c.pass = 1 THEN [c EXCEPT !.pc = "check", !.pass = 2, !.osa = NoOsa]
         ELSE [c EXCEPT !.pc = "send", !.osa = NoOsa]
    ELSE [c EXCEPT !.pc = "returned", !.osa = NoOsa]

\* A caller calls request() or morph_action_hook() (lines 322-328): the call
\* enters _populate_hosts_and_request_paths.  Calls are numbered in the order
\* they start; a caller starts one when no other call is under way.
Call(i, op) ==
    /\ op \in {"request", "morph_action_hook"}
    /\ calls[i].pc = "idle"
    /\ \A j \in CallIds : j < i => calls[j].pc # "idle"
    /\ \A j \in CallIds : Quiescent(calls[j])
    /\ calls' = [calls EXCEPT ![i].op = op, ![i].pc = "check", ![i].pass = 1]
    /\ UNCHANGED <<config, auth_token, service_catalog, target, auth_requests,
                 auth_vars, cat_vars>>

\* The same from a second thread: another call may be under way.
CallConcurrently(i, op) ==
    /\ op \in {"request", "morph_action_hook"}
    /\ calls[i].pc = "idle"
    /\ \A j \in CallIds : j < i => calls[j].pc # "idle"
    /\ calls' = [calls EXCEPT ![i].op = op, ![i].pc = "check", ![i].pass = 1]
    /\ UNCHANGED <<config, auth_token, service_catalog, target, auth_requests,
                 auth_vars, cat_vars>>

\* A caller calls add_default_headers (lines 317-320).
AddDefaultHeaders(i) ==
    /\ calls[i].pc = "idle"
    /\ \A j \in CallIds : j < i => calls[j].pc # "idle"
    /\ \A j \in CallIds : Quiescent(calls[j])
    /\ calls' = [calls EXCEPT
                   ![i].op = "add_default_headers",
                   ![i].pc = "returned",
                   ![i].headers = add_default_headers(NoHeaders, auth_token,
                                                      config.accept_format)]
    /\ UNCHANGED <<config, auth_token, service_catalog, target, auth_requests,
                 auth_vars, cat_vars>>

\* Lines 336-345: the token test, the choice of the auth URL and the
\* construction of the auth connection.
CheckToken(i) ==
    /\ calls[i].pc = "check"
    /\ LET aurl == IF config._ex_force_auth_url # None
                   THEN config._ex_force_auth_url ELSE config.auth_url
       IN  IF ~ Falsy(auth_token)
           THEN calls' = [calls EXCEPT ![i] = AfterStep(@)]
           ELSE IF aurl = None
           THEN Raise(i, "LibcloudError")
           ELSE calls' = [calls EXCEPT ![i].pc = "authenticate"]
    /\ UNCHANGED <<config, auth_token, service_catalog, target, auth_requests,
                 auth_vars, cat_vars>>

\* Line 348: osa.authenticate(), the auth endpoint answering resp.
Authenticate(i) ==
    /\ calls[i].pc = "authenticate"
    /\ \E resp \in ScriptedResponses :
         LET osa == authenticate(config._auth_version, resp)
         IN  /\ auth_requests' = auth_requests + osa.requests
             /\ calls' = [calls EXCEPT
                   ![i].osa = IF osa.exc # NoExc THEN NoOsa ELSE osa,
                   ![i].exchanges = @ + osa.requests,
                   ![i].pc = IF osa.exc # NoExc THEN "raised" ELSE "set_token",
                   ![i].exc = osa.exc]
    /\ UNCHANGED <<config, auth_token, service_catalog, target, auth_vars, cat_vars>>

\* Line 350: self.auth_token = osa.auth_token
SetToken(i) ==
    /\ calls[i].pc = "set_token"
    /\ auth_token' = calls[i].osa.auth_token
    /\ calls' = [calls EXCEPT ![i].pc = "build_catalog"]
    /\ UNCHANGED <<config, service_catalog, target, auth_requests, auth_vars, cat_vars>>

\* Line 353: self.service_catalog = OpenStackServiceCatalog(osa.urls, ...)
BuildCatalog(i) ==
    /\ calls[i].pc = "build_catalog"
    /\ LET built == OpenStackServiceCatalog(calls[i].osa.urls, config._auth_version)
       IN  IF built.exc # NoExc
           THEN /\ Raise(i, built.exc)
                /\ UNCHANGED service_catalog
           ELSE /\ service_catalog' = built
                /\ calls' = [calls EXCEPT ![i].pc = "set_target"]
    /\ UNCHANGED <<config, auth_token, target, auth_requests, auth_vars, cat_vars>>

\* Line 356 calling get_endpoint() before it looks at the forced base URL.
SetTarget_eager(i) ==
    /\ calls[i].pc = "set_target"
    /\ LET hook == driver_get_endpoint(config.driver, service_catalog)
           ep == IF ~ Falsy(config._ex_force_base_url) /\ hook.exc = NoExc
                 THEN [exc |-> NoExc, val |-> config._ex_force_base_url]
                 ELSE hook
           tuple == _tuple_from_url(ep.val)
       IN  IF ep.exc # NoExc
           THEN /\ Raise(i, ep.exc)
                /\ UNCHANGED target
           ELSE IF tuple.exc # NoExc
           THEN /\ Raise(i, tuple.exc)
                /\ UNCHANGED target
           ELSE /\ target' = tuple.val
                /\ calls' = [calls EXCEPT ![i] = AfterStep(@)]
    /\ UNCHANGED <<config, auth_token, service_catalog, auth_requests, auth_vars, cat_vars>>

\* Line 356: the target from the forced base URL or the driver's endpoint.
SetTarget(i) ==
    /\ calls[i].pc = "set_target"
    /\ LET ep == IF ~ Falsy(config._ex_force_base_url)
                 THEN [exc |-> NoExc, val |-> config._ex_force_base_url]
                 ELSE driver_get_endpoint(config.driver, service_catalog)
           tuple == _tuple_from_url(ep.val)
       IN  IF ep.exc # NoExc
           THEN /\ Raise(i, ep.exc)
                /\ UNCHANGED target
           ELSE IF tuple.exc # NoExc
           THEN /\ Raise(i, tuple.exc)
                /\ UNCHANGED target
           ELSE /\ target' = tuple.val
                /\ calls' = [calls EXCEPT ![i] = AfterStep(@)]
    /\ UNCHANGED <<config, auth_token, service_catalog, auth_requests, auth_vars, cat_vars>>

\* Line 328, after its morph_action_hook: the generic request() builds the
\* default headers and hands the request to the HTTP collaborator.
Send(i) ==
    /\ calls[i].pc = "send"
    /\ calls' = [calls EXCEPT
                   ![i].pc = "returned",
                   ![i].headers = add_default_headers(NoHeaders, auth_token,
                                                      config.accept_format),
                   ![i].sent = target]
    /\ UNCHANGED <<config, auth_token, service_catalog, target, auth_requests,
                 auth_vars, cat_vars>>

Next ==
    \/ \E i \in CallIds, op \in Ops : Call(i, op)
    \/ \E i \in CallIds : AddDefaultHeaders(i)
    \/ \E i \in CallIds : CheckToken(i)
    \/ \E i \in CallIds : Authenticate(i)
    \/ \E i \in CallIds : SetToken(i)
    \/ \E i \in CallIds : BuildCatalog(i)
    \/ \E i \in CallIds : SetTarget(i)
    \/ \E i \in CallIds : Send(i)

Spec == Init /\ [][Next]_vars

\* Two threads share the connection: calls interleave line by line.
NextThreads ==
    \/ \E i \in CallIds, op \in Ops : CallConcurrently(i, op)
    \/ \E i \in CallIds : CheckToken(i)
    \/ \E i \in CallIds : Authenticate(i)
    \/ \E i \in CallIds : SetToken(i)
    \/ \E i \in CallIds : BuildCatalog(i)
    \/ \E i \in CallIds : SetTarget(i)
    \/ \E i \in CallIds : Send(i)

SpecThreads == Init /\ [][NextThreads]_vars

(***************************************************************************)
(* The AuthNegotiator alone: authenticate() applied to every auth version  *)
(* and every response of the model.                                        *)
(***************************************************************************)
UnusedConnection ==
    /\ config = ConnectionConfig(V_unset, None, None, None, NotImplemented)
    /\ auth_token = None
    /\ service_catalog = NoCatalog
    /\ target = InitialTarget
    /\ calls = [i \in CallIds |-> IdleCall]
    /\ auth_requests = 0

InitAuth ==
    /\ UnusedConnection
    /\ auth_in \in [version : AuthVersions, resp : Responses]
    /\ auth_out = NotAuthenticated
    /\ cat_in = IdleCat
    /\ cat_out = NotBuilt
    /\ lookup = NoLookup

\* osa.authenticate() on a connection of version auth_in.version, the auth
\* endpoint answering auth_in.resp.
CallAuthenticate ==
    /\ ~ auth_out.called
    /\ auth_out' = [called |-> TRUE,
                    result |-> authenticate(auth_in.version, auth_in.resp)]
    /\ UNCHANGED <<conn_vars, auth_in, cat_vars>>

NextAuth == CallAuthenticate

SpecAuth == InitAuth /\ [][NextAuth]_vars

(***************************************************************************)
(* The ServiceCatalogIndex alone: the constructor applied to raw catalogs  *)
(* of both shapes and every auth version, then get_endpoint.               *)
(***************************************************************************)
\* Endpoints a raw catalog of the model holds, all services together.
MaxEndpoints == 2

EndpointRecords ==
    {Endpoint(None, "https://x/compute"), Endpoint("DFW", "https://dfw/v2"),
     Endpoint("ORD", "https://ord/v2"), Endpoint("DFW", "https://x/compute")}
ServiceKeys == {<<"compute", "nova">>, <<"compute", Absent>>, <<"image", "nova">>}
ServiceNames == {"cloudServers", "cloudFiles", "cloudFilesCDN"}

\* Lists of 2.0 service descriptors, each with an endpoint or more, holding
\* at most e endpoints.
RECURSIVE V2Services(_)
V2Services(e) ==
    {<<>>} \cup
    UNION {{<<Service(key[1], key[2], eps)>> \o rest :
               eps \in [1..n -> EndpointRecords],
               key \in ServiceKeys,
               rest \in V2Services(e - n)} : n \in 1..e}

\* 1.x dicts over the service names, each service with an endpoint or more,
\* holding at most e endpoints.
RECURSIVE V1Services(_, _)
V1Services(names, e) ==
    IF names = {} THEN {EmptyDict}
    ELSE LET name == CHOOSE x \in names : TRUE
         IN  V1Services(names \ {name}, e) \cup
             UNION {{(name :> JList(eps)) @@ rest :
                       eps \in [1..n -> EndpointRecords],
                       rest \in V1Services(names \ {name}, e - n)} : n \in 1..e}

\* Services without endpoints.
EmptyServices ==
    {JList(<<Service("compute", "nova", <<>>)>>),
     JList(<<JObj([x \in {"type"} |-> JStr("compute")])>>),
     JObj([x \in {"cloudServers"} |-> JList(<<>>)])}

\* Payloads neither parser can walk.
MalformedCatalogs ==
    {JNull, JStr("catalog"),
     JList(<<JObj([x \in {"name"} |-> JStr("nova")])>>),
     JList(<<JObj([x \in {"type", "endpoints"} |->
                     IF x = "type" THEN JStr("compute") ELSE JNull])>>),
     JObj([x \in {"cloudServers"} |-> JNull]),
     JObj([x \in {"cloudServers"} |-> JList(<<JStr("https://x/compute")>>)])}

RawCatalogs ==
    {JList(l) : l \in V2Services(MaxEndpoints)}
    \cup {JObj(d) : d \in V1Services(ServiceNames, MaxEndpoints)}
    \cup EmptyServices
    \cup MalformedCatalogs

LookupTypes == {None, "compute", "image"}
LookupNames == {None, "nova", "cloudServers"}
LookupRegions == {None, "DFW", "ORD"}

InitCatalog ==
    /\ UnusedConnection
    /\ auth_in = IdleAuth
    /\ auth_out = NotAuthenticated
    /\ cat_in \in [raw : RawCatalogs, version : AuthVersions]
    /\ cat_out = NotBuilt
    /\ lookup = NoLookup

\* OpenStackServiceCatalog(cat_in.raw, ex_force_auth_version=cat_in.version)
Build ==
    /\ ~ cat_out.built
    /\ cat_out' = [built |-> TRUE,
                   obj |-> OpenStackServiceCatalog(cat_in.raw, cat_in.version)]
    /\ UNCHANGED <<conn_vars, auth_vars, cat_in, lookup>>

\* get_endpoint(service_type, name, region) on the object built.
Lookup(service_type, name, region) ==
    /\ cat_out.built
    /\ cat_out.obj.exc = NoExc
    /\ ~ lookup.called
    /\ LET r == get_endpoint(cat_out.obj, service_type, name, region)
       IN  lookup' = [called |-> TRUE, service_type |-> service_type,
                      name |-> name, region |-> region,
                      exc |-> r.exc, val |-> r.val]
    /\ UNCHANGED <<conn_vars, auth_vars, cat_in, cat_out>>

NextCatalog ==
    \/ Build
    \/ \E t \in LookupTypes, n \in LookupNames, r \in LookupRegions : Lookup(t, n, r)

SpecCatalog == InitCatalog /\ [][NextCatalog]_vars

(***************************************************************************)
(* Properties of authenticate(), under SpecAuth.                           *)
(***************************************************************************)
SuccessStatuses(version) ==
    IF version = V_1_0 THEN {NO_CONTENT}
    ELSE IF version = V_1_1 THEN {OK}
    ELSE IF version \in {V_2_0, V_2_0_apikey, V_2_0_password}
         THEN {OK, NON_AUTHORITATIVE_INFORMATION}
    ELSE {}

HasContentType(resp) ==
    "content-type" \in DOMAIN resp.headers \/ "Content-Type" \in DOMAIN resp.headers

\* The JSON value v is {outer: {"token": {"id": <non-empty string>},
\* "serviceCatalog": ...}}.
HasTokenAndCatalog(v, outer) ==
    /\ v.k = "obj"
    /\ outer \in DOMAIN v.o
    /\ v.o[outer].k = "obj"
    /\ {"token", "serviceCatalog"} \subseteq DOMAIN v.o[outer].o
    /\ v.o[outer].o["token"].k = "obj"
    /\ "id" \in DOMAIN v.o[outer].o["token"].o
    /\ v.o[outer].o["token"].o["id"].k = "str"
    /\ v.o[outer].o["token"].o["id"].s # ""

OuterKey(version) == IF version = V_1_1 THEN "auth" ELSE "access"

\* The success shape of a version: for 1.0 a no-content answer (no body) with
\* a non-empty x-auth-token header; for the others a success status, a
\* content-type header and a JSON body with the token and the catalog.
SuccessShape(version, resp) ==
    /\ version \in RecognizedVersions
    /\ resp.status \in SuccessStatuses(version)
    /\ IF version = V_1_0
       THEN /\ resp.body = ""
            /\ "x-auth-token" \in DOMAIN resp.headers
            /\ resp.headers["x-auth-token"] # ""
       ELSE /\ HasContentType(resp)
            /\ JsonLoads(resp.body).exc = NoExc
            /\ HasTokenAndCatalog(JsonLoads(resp.body).val, OuterKey(version))

\* The V1-shape catalog the 1.0 headers stand for.
HeaderCatalog(headers) ==
    LET url(h) == JObj([y \in {"publicURL"} |->
                   IF h \in DOMAIN headers THEN JStr(headers[h]) ELSE JNull])
    IN  JObj(("cloudServers" :> JList(<<url("x-server-management-url")>>))
             @@ ("cloudFilesCDN" :> JList(<<url("x-cdn-management-url")>>))
             @@ ("cloudFiles" :> JList(<<url("x-storage-url")>>)))

CarriedToken(version, resp) ==
    IF version = V_1_0 THEN resp.headers["x-auth-token"]
    ELSE JsonLoads(resp.body).val.o[OuterKey(version)].o["token"].o["id"].s

CarriedCatalog(version, resp) ==
    IF version = V_1_0 THEN HeaderCatalog(resp.headers)
    ELSE JsonLoads(resp.body).val.o[OuterKey(version)].o["serviceCatalog"]

\* C2: for each auth version, a response of the version's success shape makes
\* authenticate() end without failure, with the token and the catalog the
\* response carries.
C2_SuccessYieldsTokenAndCatalog ==
    (auth_out.called /\ SuccessShape(auth_in.version, auth_in.resp))
    => /\ auth_out.result.exc = NoExc
       /\ auth_out.result.auth_token = CarriedToken(auth_in.version, auth_in.resp)
       /\ auth_out.result.urls = CarriedCatalog(auth_in.version, auth_in.resp)

\* A 2.0 password authentication answered "non-authoritative" has succeeded.
C2_Witness ==
    /\ auth_out.called
    /\ auth_in.version = V_2_0_password
    /\ auth_in.resp.status = NON_AUTHORITATIVE_INFORMATION
    /\ SuccessShape(auth_in.version, auth_in.resp)
    /\ auth_out.result.auth_token = "tok456"

\* C4: for every auth version, an unauthorized (401) answer makes
\* authenticate() fail with InvalidCredsError, whatever its body and headers.
C4_UnauthorizedIsCredentialFailure ==
    (/\ auth_out.called
     /\ auth_in.version \in RecognizedVersions
     /\ auth_in.resp.status = UNAUTHORIZED)
    => auth_out.result.exc = "InvalidCredsError"

Unparsable(body) == JsonLoads(body).exc # NoExc

TokenMissing(version, resp) ==
    IF version = V_1_0
    THEN Falsy(DictGet(resp.headers, "x-auth-token", None))
    ELSE LET id == GetPath(JsonLoads(resp.body).val,
                           <<OuterKey(version), "token", "id">>)
         IN  /\ JsonLoads(resp.body).exc = NoExc
             /\ id.exc = "KeyError" \/ (id.exc = NoExc /\ Falsy(PyVal(id.val)))

\* C6: whenever authenticate() ends without failure the token is a non-empty
\* string, and a success-status response whose token is absent or empty ends
\* in MalformedResponseError.
C6_TokenNonEmptyAfterSuccess ==
    (auth_out.called /\ auth_in.version \in RecognizedVersions)
    => /\ auth_out.result.exc = NoExc => ~ Falsy(auth_out.result.auth_token)
       /\ (/\ auth_in.resp.status \in SuccessStatuses(auth_in.version)
           /\ parse_body(auth_in.resp).exc = NoExc
           /\ TokenMissing(auth_in.version, auth_in.resp))
          => auth_out.result.exc = "MalformedResponseError"

(***************************************************************************)
(* Properties of the service catalog, under SpecCatalog.                   *)
(***************************************************************************)
\* Every endpoint record of a raw catalog of either shape.
RawEndpoints(raw) ==
    IF raw.k = "list"
    THEN UNION {{raw.l[i].o["endpoints"].l[j] :
                    j \in DOMAIN raw.l[i].o["endpoints"].l} :
                i \in {x \in DOMAIN raw.l : "endpoints" \in DOMAIN raw.l[x].o}}
    ELSE UNION {{raw.o[service].l[j] : j \in DOMAIN raw.o[service].l} :
                service \in DOMAIN raw.o}

EmptyResult == JObj(EmptyDict)

\* C7: on every index built, get_endpoint returns one endpoint record of the
\* catalog or the empty result, and never raises, whatever the arguments.
C7_LookupTotal ==
    lookup.called
    => /\ lookup.exc = NoExc
       /\ \/ lookup.val = EmptyResult
          \/ lookup.val \in RawEndpoints(cat_in.raw)

\* A lookup with a service type the 2.0 index does not hold came back empty.
C7_Witness ==
    /\ lookup.called
    /\ StrIn(V_2_0, cat_out.obj._auth_version)
    /\ DOMAIN cat_out.obj._service_catalog # {}
    /\ lookup.service_type \notin DOMAIN cat_out.obj._service_catalog
    /\ lookup.exc = NoExc
    /\ lookup.val = EmptyResult

\* The list the index holds for the keys of a lookup (no list: the empty one).
ResolvedList(catalog, service_type, name, region) ==
    LET index == catalog._service_catalog
    IN  IF StrIn(V_2_0, catalog._auth_version)
        THEN IF service_type \notin DOMAIN index THEN <<>>
             ELSE IF name \notin DOMAIN index[service_type] THEN <<>>
             ELSE IF region \notin DOMAIN index[service_type][name] THEN <<>>
             ELSE index[service_type][name][region]
        ELSE IF name \notin DOMAIN index THEN <<>>
             ELSE IF region \notin DOMAIN index[name] THEN <<>>
             ELSE index[name][region]

LookupList == ResolvedList(cat_out.obj, lookup.service_type, lookup.name, lookup.region)

\* C8: get_endpoint returns an endpoint exactly when the list resolved for
\* its keys holds one endpoint, and then that one; for no endpoint and for
\* two or more it returns the empty result.
C8_ExactlyOneOrEmpty ==
    lookup.called
    => /\ Len(LookupList) = 1 => lookup.val = LookupList[1]
       /\ Len(LookupList) # 1 => lookup.val = EmptyResult

\* A lookup that resolved to two identical records came back empty.
C8_Witness ==
    /\ lookup.called
    /\ Len(LookupList) = 2
    /\ LookupList[1] = LookupList[2]
    /\ lookup.val = EmptyResult

\* C9: the constructor fails with LibcloudError for every auth version
\* string that is not one of the five authenticate() accepts.
C9_UnrecognizedVersionFails ==
    (cat_out.built /\ cat_in.version \notin RecognizedVersions \cup {V_unset})
    => cat_out.obj.exc = "LibcloudError"

(***************************************************************************)
(* Properties of the connection, under Spec (one caller) and SpecThreads.  *)
(***************************************************************************)
\* Call i ran the ensure-authenticated step, which returned.
StepReturned(i) ==
    /\ calls[i].op \in {"request", "morph_action_hook"}
    /\ calls[i].pc = "returned"

\* Call i has ended, by a return or an exception.
Ended(i) == calls[i].pc \in {"returned", "raised"}

\* C1: when authentication succeeds, the ensure-authenticated step called
\* twice in a row issues one exchange with the auth endpoint, and no later
\* call on the connection issues any.
C1_StepIdempotent ==
    /\ (/\ calls[1].op = "morph_action_hook" /\ calls[1].pc = "returned"
        /\ calls[2].op = "morph_action_hook" /\ Ended(2))
       => calls[1].exchanges + calls[2].exchanges = 1
    /\ \A i, j \in CallIds :
         (i < j /\ StepReturned(i)) => calls[j].exchanges = 0

\* C3: two calls that both entered the step while auth_token was empty never
\* both complete an exchange for the same transition: while the token is
\* still empty at most one call holds the result of a successful exchange.
C3_SingleAuthenticationPerTransition ==
    \A i, j \in CallIds :
        (/\ i # j
         /\ Falsy(auth_token)
         /\ calls[i].pc = "set_token")
        => calls[j].pc # "set_token"

\* C10: whenever default headers are built, X-Auth-Token holds the non-empty
\* negotiated token and Accept holds the accept format.
C10_HeadersCarryToken ==
    \A i \in CallIds :
        calls[i].headers # NoHeaders
        => /\ ~ Falsy(calls[i].headers["X-Auth-Token"])
           /\ calls[i].headers["X-Auth-Token"] = auth_token
           /\ calls[i].headers["Accept"] = config.accept_format

\* No call is under way.
AllQuiescent == \A i \in CallIds : Quiescent(calls[i])

\* The auth URL line 337-340 chooses.
ChosenAuthUrl ==
    IF config._ex_force_auth_url # None
    THEN config._ex_force_auth_url ELSE config.auth_url

\* C11: between calls, auth_token and service_catalog are set together: both
\* None, or both set.
C11_TokenAndCatalogSetTogether ==
    AllQuiescent => (auth_token = None <=> IsNone(service_catalog))

\* C13: no request is handed to the generic request() while the connection
\* still has the target it was constructed with.
C13_NoDispatchBeforeReconfiguration ==
    \A i \in CallIds :
        (calls[i].op = "request" /\ calls[i].pc = "returned")
        => calls[i].sent # InitialTarget

\* C14: when the first call on a connection fails, the connection is left as
\* constructed, and a second call starts a fresh authentication attempt.
C14_FailureLeavesConnectionUnchanged ==
    (calls[1].op \in {"request", "morph_action_hook"} /\ calls[1].pc = "raised")
    => /\ calls[2].pc = "idle"
          => /\ auth_token = None
             /\ IsNone(service_catalog)
             /\ target = InitialTarget
       /\ (/\ calls[2].op \in {"request", "morph_action_hook"}
           /\ Ended(2)
           /\ ChosenAuthUrl # None
           /\ config._auth_version \in RecognizedVersions)
          => calls[2].exchanges >= 1

\* The first call on the connection ran the ensure-authenticated step and
\* has ended.
FirstCallEnded ==
    calls[1].op \in {"request", "morph_action_hook"} /\ Ended(1)

FirstCallRaised(exc) == calls[1].pc = "raised" /\ calls[1].exc = exc

\* The driver left get_endpoint unimplemented, no base URL is forced, and the
\* first call got as far as the endpoint resolution of line 356.
HookMissingAndReached ==
    /\ ChosenAuthUrl # None
    /\ config._auth_version \in RecognizedVersions
    /\ ~ config.driver.implemented
    /\ Falsy(config._ex_force_base_url)
    /\ calls[2].pc = "idle"
    /\ ~ IsNone(service_catalog)

\* A missing auth URL and an unrecognized auth version reach the caller of
\* the first call as LibcloudError.
UrlAndVersionErrorsSurface ==
    /\ ChosenAuthUrl = None => FirstCallRaised("LibcloudError")
    /\ (ChosenAuthUrl # None /\ config._auth_version \notin RecognizedVersions)
       => FirstCallRaised("LibcloudError")

\* C12 as claimed: a missing auth URL, an unrecognized auth version and an
\* unimplemented get_endpoint all reach the caller of the first call as
\* LibcloudError.
C12_ConfigurationErrorsAreLibcloudError ==
    FirstCallEnded
    => /\ UrlAndVersionErrorsSurface
       /\ HookMissingAndReached => FirstCallRaised("LibcloudError")

\* C12 as amended: the first two reach the caller as LibcloudError, the
\* unimplemented get_endpoint as NotImplementedError.
C12_ConfigurationErrorsSurface ==
    FirstCallEnded
    => /\ UrlAndVersionErrorsSurface
       /\ HookMissingAndReached => FirstCallRaised("NotImplementedError")

\* A 2.0 connection whose driver has no get_endpoint authenticated, built its
\* catalog and raised NotImplementedError.
C12_Witness ==
    /\ FirstCallEnded
    /\ HookMissingAndReached
    /\ config._auth_version = V_2_0
    /\ auth_token = "tok456"
    /\ FirstCallRaised("NotImplementedError")

(***************************************************************************)
(* Further properties of authenticate(), under SpecAuth.                   *)
(***************************************************************************)
\* The body parses as JSON, and the token id or the catalog is not found on
\* its path: a key is missing, or a value on the path is not an object.
MissingExpectedKeys(version, resp) ==
    LET body == JsonLoads(resp.body)
        outer == OuterKey(version)
    IN  /\ body.exc = NoExc
        /\ \/ GetPath(body.val, <<outer, "token", "id">>).exc # NoExc
           \/ GetPath(body.val, <<outer, "serviceCatalog">>).exc # NoExc

\* C15: for 1.1 and both 2.0 variants, a success-status response whose JSON
\* body lacks the expected keys makes authenticate() fail with
\* MalformedResponseError, whatever the JSON value is.
C15_MissingKeysAreMalformed ==
    (/\ auth_out.called
     /\ auth_in.version \in RecognizedVersions \ {V_1_0}
     /\ auth_in.resp.status \in SuccessStatuses(auth_in.version)
     /\ request(auth_in.resp).exc = NoExc
     /\ MissingExpectedKeys(auth_in.version, auth_in.resp))
    => auth_out.result.exc = "MalformedResponseError"

\* C16: 401 gives InvalidCredsError, every other status outside the
\* version's success set gives MalformedResponseError, and in neither case
\* is a token or a catalog recorded.
C16_StatusClassification ==
    (/\ auth_out.called
     /\ auth_in.version \in RecognizedVersions
     /\ auth_in.resp.status \notin SuccessStatuses(auth_in.version))
    => /\ auth_out.result.exc =
            IF auth_in.resp.status = UNAUTHORIZED
            THEN "InvalidCredsError" ELSE "MalformedResponseError"
       /\ auth_out.result.auth_token = None
       /\ auth_out.result.urls = JObj(EmptyDict)

RegionOf(endpoint) == PyVal(DictGet(endpoint.o, "region", JNull))

\* The endpoints of a list that carry the region, in the order of the list.
WithRegion(endpoints, region) ==
    SelectSeq(endpoints, LAMBDA e : RegionOf(e) = region)

\* The endpoints with the region of every 2.0 service descriptor with the
\* type and the name, in declared order.
RECURSIVE DeclaredV2(_, _, _, _)
DeclaredV2(services, type, name, region) ==
    IF services = <<>> THEN <<>>
    ELSE LET service == Head(services).o
             endpoints == DictGet(service, "endpoints", JList(<<>>)).l
             mine == IF /\ PyVal(service["type"]) = type
                        /\ PyVal(DictGet(service, "name", JNull)) = name
                     THEN WithRegion(endpoints, region) ELSE <<>>
         IN  mine \o DeclaredV2(Tail(services), type, name, region)

\* The endpoints with the region of a 1.x service, in declared order.
DeclaredV1(raw, name, region) ==
    IF name \in DOMAIN raw THEN WithRegion(raw[name].l, region) ELSE <<>>

\* The keys a catalog of the model can hold.
CatalogTypes == {None, "compute", "image"}
CatalogNames == {None, "nova"} \cup ServiceNames
CatalogRegions == {None, "DFW", "ORD"}

\* The keys of the index, level by level.
IndexKeys(index, depth) ==
    IF depth = 1 THEN DOMAIN index
    ELSE UNION {DOMAIN index[k] : k \in DOMAIN index}

\* C17: the list the index holds for each key is the sequence, in declared
\* order, of the raw catalog's endpoints with that key: none is lost,
\* duplicated or reordered, and the index has no other key.  (Stated of the
\* object as the constructor leaves it; get_endpoint does not change it.)
C17_BuildPreservesEndpointsAndOrder ==
    (cat_out.built /\ cat_out.obj.exc = NoExc /\ ~ lookup.called)
    => IF StrIn(V_2_0, cat_out.obj._auth_version)
       THEN cat_in.raw.k = "list"
            => /\ \A t \in CatalogTypes, n \in CatalogNames, r \in CatalogRegions :
                    ResolvedList(cat_out.obj, t, n, r)
                        = DeclaredV2(cat_in.raw.l, t, n, r)
               /\ DOMAIN cat_out.obj._service_catalog \subseteq CatalogTypes
               /\ IndexKeys(cat_out.obj._service_catalog, 2) \subseteq CatalogNames
       ELSE /\ cat_in.raw.k = "obj"
            /\ \A n \in CatalogNames, r \in CatalogRegions :
                 ResolvedList(cat_out.obj, None, n, r) = DeclaredV1(cat_in.raw.o, n, r)
            /\ DOMAIN cat_out.obj._service_catalog = DOMAIN cat_in.raw.o
            /\ IndexKeys(cat_out.obj._service_catalog, 2) \subseteq CatalogRegions

\* Two descriptors of compute/nova, each with one DFW endpoint, accumulated
\* in declared order under one key.
C17_Witness ==
    /\ cat_out.built
    /\ cat_out.obj.exc = NoExc
    /\ cat_in.version = V_2_0
    /\ cat_in.raw.k = "list"
    /\ Len(cat_in.raw.l) = 2
    /\ ResolvedList(cat_out.obj, "compute", "nova", "DFW")
         = <<Endpoint("DFW", "https://dfw/v2"), Endpoint("DFW", "https://x/compute")>>

\* A 2.0 catalog of one compute/nova service with a DFW and an ORD endpoint.
TwoRegions ==
    /\ StrIn(V_2_0, cat_out.obj._auth_version)
    /\ cat_in.raw = JList(<<Service("compute", "nova",
                             <<Endpoint("DFW", "https://dfw/v2"),
                               Endpoint("ORD", "https://ord/v2")>>)>>)

\* C18: an endpoint get_endpoint returns has the region asked for, None
\* included; with a DFW and an ORD endpoint of one service, region DFW gives
\* the DFW one, region ORD the ORD one, and region None the empty result.
C18_RegionMatchedExactly ==
    lookup.called
    => /\ lookup.val # EmptyResult => RegionOf(lookup.val) = lookup.region
       /\ (TwoRegions /\ lookup.service_type = "compute" /\ lookup.name = "nova")
          => lookup.val =
               IF lookup.region = "DFW" THEN Endpoint("DFW", "https://dfw/v2")
               ELSE IF lookup.region = "ORD" THEN Endpoint("ORD", "https://ord/v2")
               ELSE EmptyResult

\* With the two regions, the lookup without a region came back empty.
C18_Witness ==
    /\ lookup.called
    /\ TwoRegions
    /\ lookup.service_type = "compute"
    /\ lookup.name = "nova"
    /\ lookup.region = None
    /\ lookup.val = EmptyResult

(***************************************************************************)
(* The source of the request target, under Spec.                           *)
(***************************************************************************)
\* Call i authenticated and returned, and no call was made since.
AuthenticatedLast(i) ==
    /\ StepReturned(i)
    /\ calls[i].exchanges > 0
    /\ \A j \in CallIds : j > i => calls[j].pc = "idle"

\* (host, port, secure, request_path) of a URL.
TargetOf(url) == _tuple_from_url(url).val

\* C20: after a successful authentication the target is that of the forced
\* base URL when one is configured, and otherwise that of the URL the
\* driver's get_endpoint returns; with a forced base URL get_endpoint is not
\* called, so the step completes once the catalog is built, whatever the
\* driver.
C20_TargetSource ==
    /\ \A i \in CallIds :
         AuthenticatedLast(i)
         => target =
              IF ~ Falsy(config._ex_force_base_url)
              THEN TargetOf(config._ex_force_base_url)
              ELSE TargetOf(driver_get_endpoint(config.driver, service_catalog).val)
    /\ (/\ ~ Falsy(config._ex_force_base_url)
        /\ calls[1].op = "morph_action_hook"
        /\ Ended(1)
        /\ calls[2].pc = "idle"
        /\ ~ IsNone(service_catalog))
       => /\ calls[1].pc = "returned"
          /\ target = TargetOf(config._ex_force_base_url)

\* A connection with a forced base URL, whose driver has no get_endpoint,
\* authenticated and took the forced URL for its target.
C20_Witness ==
    /\ AuthenticatedLast(1)
    /\ calls[1].op = "morph_action_hook"
    /\ ~ config.driver.implemented
    /\ config._ex_force_base_url = "https://forced:8443/base"
    /\ target = [host |-> "forced", port |-> "8443", secure |-> TRUE,
                 request_path |-> "/base"]

=============================================================================
